---------------------------- MODULE Spec2Model ----------------------------
(***************************************************************************)
(* Meteoflux: the polling scheduler of src/meteoflux.py (main), with the   *)
(* record extractor, the sink writer, the watermark query and the process  *)
(* supervisor it calls.                                                    *)
(*                                                                         *)
(* Texts are modelled by their structure: a date "YYYY-MM-DD" is the tuple *)
(* <<Y, M, D>> of its digit groups, a time "HH:MM" the tuple <<H, M>>, a   *)
(* raw column value the tuple of its characters.  A timestamp is the       *)
(* number of minutes of its wall-clock reading on a calendar with 31-day   *)
(* months; this numbering is strictly monotone on valid dates, which is    *)
(* all that the comparisons of the program use.                            *)
(***************************************************************************)
EXTENDS Integers, Sequences, FiniteSets, TLC

VARIABLES
    pc,             \* position of main ("match": of write_to_influxdb alone)
    timer,          \* meteoconfig.timer (seconds)
    kill_timer,     \* meteoconfig.kill_timer (seconds)
    last_timestamp, \* the watermark <<t>> (<<>> is None, before the connect phase)
    iterations,     \* main: iteration counter
    zeros,          \* main: consecutive empty polls
    restarts,       \* main: restart counter
    last_restart,   \* main: clock reading of the last (re)start
    max_zeros,      \* main: stall threshold
    new_rows,       \* main: the batch of the current cycle
    err,            \* the exception caught by the current except clause
    elapsed,        \* kill_winmeteo: time.time() - start_time, in seconds
    calls,          \* supervisor calls made by the current cycle, in order
    at_start,       \* loop state printed at the start of the current cycle
    clock,          \* datetime.now(): the number of readings taken so far
    dbf,            \* the source file: sequence of rows
    sink,           \* the time-series store: set of points
    proc_alive,     \* a process named winmeteo_process is live
    connects,       \* failed attempts of the connect phase in progress
    requests,       \* requests made to the operating system by the current
                    \* cycle's supervisor calls, in order
    resubmit,       \* the write call of the previous cycle raised
    match_key,      \* write_to_influxdb: the key the match statement is given
    match_case      \* write_to_influxdb: the case of the match statement it took

vars == <<pc, timer, kill_timer, last_timestamp, iterations, zeros, restarts,
          last_restart, max_zeros, new_rows, err, elapsed, calls, at_start,
          clock, dbf, sink, proc_alive, connects, requests, resubmit,
          match_key, match_case>>

\* Python's None, for a raw value (a text is a tuple of characters)
None == <<"None">>

\* the outcome of a call: a returned value, or the exception it raised
Return(v) == [exc |-> "", val |-> <<v>>]
Raise(e) == [exc |-> e, val |-> <<>>]
raised(r) == r.exc # ""
value(r) == r.val[1]

----------------------------------------------------------------------------
(* Bounds of the model *)

MaxRows == 2          \* rows the source file can hold
MaxIter == 7          \* cycles of the main loop
MaxConnectFails == 1  \* failed connect attempts

----------------------------------------------------------------------------
(* meteoconfig.py *)

config_timer == 30
error_timer == 120
config_kill_timer == 180
wait_for_kill == 20

----------------------------------------------------------------------------
(* Timestamps *)

\* the wall-clock reading Y-M-D H:Mi as a number of minutes
Minutes(Y, M, D, H, Mi) ==
    (((Y * 12 + (M - 1)) * 31 + (D - 1)) * 24 + H) * 60 + Mi

IsLeap(Y) == (Y % 4 = 0) /\ ((Y % 100 # 0) \/ (Y % 400 = 0))

DaysInMonth(Y, M) ==
    IF M = 2 THEN (IF IsLeap(Y) THEN 29 ELSE 28)
    ELSE IF M \in {4, 6, 9, 11} THEN 30 ELSE 31

\* datetime.strptime(f"{DAT} {CAS}", '%Y-%m-%d %H:%M'): raises ValueError when
\* the text does not match the format or names no date, else returns the
\* naive reading.
strptime(DAT, CAS) ==
    IF /\ Len(DAT) = 3 /\ Len(CAS) = 2
       /\ DAT[1] \in 1..9999
       /\ DAT[2] \in 1..12
       /\ DAT[3] >= 1 /\ DAT[3] <= DaysInMonth(DAT[1], DAT[2])
       /\ CAS[1] \in 0..23
       /\ CAS[2] \in 0..59
    THEN Return(Minutes(DAT[1], DAT[2], DAT[3], CAS[1], CAS[2]))
    ELSE Raise("ValueError: time data does not match format")

\* datetime.min: 0001-01-01 00:00
datetime_min == Minutes(1, 1, 1, 0, 0)

\* Europe/Prague: CET (UTC+1), CEST (UTC+2) in the summer months.  The
\* switch days in March and October are outside the sampled dates.
utcoffset(t) ==
    LET M == ((t \div (31 * 24 * 60)) % 12) + 1
    IN  IF M \in 4..9 THEN 120 ELSE 60

\* timestamp.astimezone(utc_zone) of a local reading
to_utc(t) == t - utcoffset(t)

\* record.get_time().replace(tzinfo=utc_zone).astimezone(local_zone)
to_local(u) ==
    IF utcoffset(u + 60) = 60 THEN u + 60 ELSE u + 120

\* the timestamp of a row, as main and the extractor compute it
row_time(row) == strptime(row.DAT, row.CAS)

----------------------------------------------------------------------------
(* Field mapper: the match statement of write_to_influxdb *)

system_columns == {"DAT", "CAS", "EX", "RESETCNT", "RESETTYP", "_NullFlags"}

unused_columns == {"PWD_ERR", "PWD_V01", "PWD_V10", "PWD_P01", "PWD_P15",
                   "PWD_WI", "PWD_WS", "PWD_SS", "PWD_T", "PWD_BL"}

\* the table with two columns under one field name
column_names_clash ==
    [VLVZD |-> "humi", TEP2M |-> "temp", TEP2M_I |-> "temp_min",
     TEP2M_X |-> "temp_max", TLAK |-> "press", TLAK_M |-> "press_sea",
     SRAZKY |-> "rain", RYCHV |-> "wind_speed", SMERV |-> "wind_dir",
     RYCHV_P |-> "wind_speed_avg", SMERV_P |-> "wind_dir_avg",
     RYCHV_X |-> "wind_speed_max", SMERV_X |-> "wind_dir_max",
     CASV_X |-> "wind_time_max", NABAT_E |-> "volt_exp", NABAT |-> "volt",
     NABAT_I |-> "volt"]

\* lines 57-90: the field name of each column that is written
column_names ==
    [VLVZD |-> "humi", TEP2M |-> "temp", TEP2M_I |-> "temp_min",
     TEP2M_X |-> "temp_max", TLAK |-> "press", TLAK_M |-> "press_sea",
     SRAZKY |-> "rain", RYCHV |-> "wind_speed", SMERV |-> "wind_dir",
     RYCHV_P |-> "wind_speed_avg", SMERV_P |-> "wind_dir_avg",
     RYCHV_X |-> "wind_speed_max", SMERV_X |-> "wind_dir_max",
     CASV_X |-> "wind_time_max", NABAT_E |-> "volt_exp", NABAT |-> "volt",
     NABAT_I |-> "volt_min"]

\* the outcome of the match for one column name
field_mapper(key) ==
    IF key \in system_columns \/ key \in unused_columns THEN <<"Ignored">>
    ELSE IF key \in DOMAIN column_names THEN <<"Mapped", column_names[key]>>
    ELSE <<"Unknown">>

\* the columns of a row that reach point.field(name, float(value))
mapped_keys(row) == {k \in DOMAIN row : field_mapper(k)[1] = "Mapped"}

----------------------------------------------------------------------------
(* float(value) *)

digit_chars == <<"0", "1", "2", "3", "4", "5", "6", "7", "8", "9">>

is_digit(c) == \E i \in 1..10 : digit_chars[i] = c

digit_value(c) == (CHOOSE i \in 1..10 : digit_chars[i] = c) - 1

RECURSIVE digits_value(_)
digits_value(s) ==
    IF s = <<>> THEN 0
    ELSE digits_value(SubSeq(s, 1, Len(s) - 1)) * 10 + digit_value(s[Len(s)])

\* the text without its sign
unsigned(s) == IF s # <<>> /\ s[1] \in {"-", "+"} THEN Tail(s) ELSE s

\* a decimal literal: digits with at most one point and at least one digit
is_float_text(s) ==
    LET u == unsigned(s)
    IN  /\ \A i \in 1..Len(u) : is_digit(u[i]) \/ u[i] = "."
        /\ Cardinality({i \in 1..Len(u) : u[i] = "."}) <= 1
        /\ \E i \in 1..Len(u) : is_digit(u[i])

RECURSIVE normal(_, _)
\* mantissa and number of decimals, without trailing zero decimals
normal(m, d) == IF d > 0 /\ m % 10 = 0 THEN normal(m \div 10, d - 1) ELSE <<m, d>>

\* float(value): raises TypeError for None and ValueError for a text that is
\* no number, else returns the number as <<mantissa, decimals>>
float(v) ==
    IF v = None THEN Raise("TypeError: float() argument must be a number")
    ELSE IF ~is_float_text(v) THEN Raise("ValueError: could not convert to float")
    ELSE LET u == unsigned(v)
             p == {i \in 1..Len(u) : u[i] = "."}
             d == IF p = {} THEN 0 ELSE Len(u) - (CHOOSE i \in p : TRUE)
             m == digits_value(SelectSeq(u, is_digit))
         IN  Return(normal(IF v[1] = "-" THEN 0 - m ELSE m, d))

----------------------------------------------------------------------------
(* Sink writer *)

\* the key of a row whose canonical name is n
key_of(row, n) == CHOOSE k \in mapped_keys(row) : column_names[k] = n

\* the point of a row, a column without a case taking the fields of the
\* columns before it away
make_point_unknown_drops(row) ==
    LET keys == IF \E k \in DOMAIN row : field_mapper(k) = <<"Unknown">>
                THEN {} ELSE mapped_keys(row)
        bad == {k \in keys : raised(float(row[k]))}
        ts == row_time(row)
    IN  IF bad # {} THEN Raise(float(row[CHOOSE k \in bad : TRUE]).exc)
        ELSE IF raised(ts) THEN Raise(ts.exc)
        ELSE Return([time |-> to_utc(value(ts)),
                     fields |-> [n \in {column_names[k] : k \in keys} |->
                                    value(float(row[key_of(row, n)]))]])

\* lines 49-98 for one row: the point of the row, or the exception raised by
\* float (line 95) or strptime (line 96)
make_point(row) ==
    LET keys == mapped_keys(row)
        bad == {k \in keys : raised(float(row[k]))}
        ts == row_time(row)
    IN  IF bad # {} THEN Raise(float(row[CHOOSE k \in bad : TRUE]).exc)
        ELSE IF raised(ts) THEN Raise(ts.exc)
        ELSE Return([time |-> to_utc(value(ts)),
                     fields |-> [n \in {column_names[k] : k \in keys} |->
                                    value(float(row[key_of(row, n)]))]])

RECURSIVE make_points(_)
\* lines 46-98: the points of the batch in order, or the first exception
make_points(data) ==
    IF data = <<>> THEN Return(<<>>)
    ELSE LET p == make_point(Head(data))
             rest == make_points(Tail(data))
         IN  IF raised(p) THEN p
             ELSE IF raised(rest) THEN rest
             ELSE Return(<<value(p)>> \o value(rest))

\* the sink after one point is written: a point of the same series and time
\* is overwritten field by field
upsert(store, p) ==
    LET old == {q \in store : q.time = p.time}
        merged(q) == [time |-> p.time,
                      fields |-> [n \in DOMAIN q.fields \cup DOMAIN p.fields |->
                                     IF n \in DOMAIN p.fields THEN p.fields[n]
                                     ELSE q.fields[n]]]
    IN  IF old = {} THEN store \cup {p}
        ELSE (store \ old) \cup {merged(q) : q \in old}

RECURSIVE write_api_write(_, _)
\* influx_write_api.write(record=points), when it succeeds
write_api_write(store, points) ==
    IF points = <<>> THEN store
    ELSE write_api_write(upsert(store, Head(points)), Tail(points))

----------------------------------------------------------------------------
(* Record extractor *)

RECURSIVE read_loop_ge(_, _, _)
\* the loop with the comparison of line 114 as >=
read_loop_ge(table, watermark, rows) ==
    IF table = <<>> THEN Return(rows)
    ELSE LET record_time == row_time(Head(table))
         IN  IF raised(record_time) THEN record_time
             ELSE read_loop_ge(Tail(table), watermark,
                               IF value(record_time) >= watermark
                               THEN Append(rows, Head(table)) ELSE rows)

RECURSIVE read_loop(_, _, _)
\* lines 111-116: the loop over the loaded table
read_loop(table, watermark, rows) ==
    IF table = <<>> THEN Return(rows)
    ELSE LET record_time == row_time(Head(table))
         IN  IF raised(record_time) THEN record_time
             ELSE read_loop(Tail(table), watermark,
                            IF value(record_time) > watermark
                            THEN Append(rows, Head(table)) ELSE rows)

RECURSIVE read_all(_)
read_all(table) ==
    IF table = <<>> THEN Return(<<>>)
    ELSE IF raised(row_time(Head(table))) THEN row_time(Head(table))
    ELSE IF raised(read_all(Tail(table))) THEN read_all(Tail(table))
    ELSE Return(<<Head(table)>> \o value(read_all(Tail(table))))

\* the extractor without the comparison of line 114
read_rows_unfiltered(table, watermark) == read_all(table)

\* read_new_rows_from_dbf(last_timestamp) on a file that loads as table
read_new_rows_from_dbf(table, watermark) == read_loop(table, watermark, <<>>)

\* the timestamp of the last row instead of the maximum
last_time(rows) == value(row_time(rows[Len(rows)]))

\* max(... for row in new_rows), lines 211-214
max_time(rows) ==
    LET times == {value(row_time(rows[i])) : i \in 1..Len(rows)}
    IN  CHOOSE t \in times : \A u \in times : u <= t

----------------------------------------------------------------------------
(* Watermark store adapter *)

\* the sink's clock when the query runs
sink_now == to_utc(Minutes(2024, 1, 1, 12, 0))

\* range(start: -1y): one year before now, up to now
in_range(p) == p.time >= sink_now - 12 * 31 * 24 * 60 /\ p.time < sink_now

\* the query without the conversion of line 34 to the local zone
get_last_timestamp_utc(store) ==
    LET ts == {p.time : p \in {q \in store : in_range(q)}}
    IN  IF ts = {} THEN {<<>>}
        ELSE {<<CHOOSE t \in ts : \A u \in ts : u <= t>>}

\* get_last_timestamp: the values it can return, <<>> for None.  last() keeps
\* the latest record of each table (one table per field); the function
\* returns the time of the first record of the first table.
get_last_timestamp(store) ==
    LET recs == {p \in store : in_range(p)}
        names == UNION {DOMAIN p.fields : p \in recs}
        last(n) == LET ts == {p.time : p \in {q \in recs : n \in DOMAIN q.fields}}
                   IN  CHOOSE t \in ts : \A u \in ts : u <= t
    IN  IF names = {} THEN {<<>>}
        ELSE {<<to_local(last(n))>> : n \in names}

----------------------------------------------------------------------------
(* The source file and the sink the program runs against *)

\* a row of the table: every row has the columns of the table, of which
\* ROSBOD is a column that the match statement does not name
Row(DAT, CAS, VLVZD, TEP2M) ==
    [DAT |-> DAT, CAS |-> CAS, EX |-> <<"1">>, VLVZD |-> VLVZD, TEP2M |-> TEP2M,
     ROSBOD |-> <<"2", ".", "1">>]

Rows ==
    { Row(<<2024, 1, 1>>, <<10, 0>>, <<"5", "5", ".", "2">>, <<"3", ".", "4">>),
      Row(<<2024, 1, 1>>, <<10, 15>>, <<"5", "6">>, <<"-", "1", ".", "5", "0">>),
      \* a value that is no number
      Row(<<2024, 1, 1>>, <<10, 10>>, <<"a", "b", "c">>, <<"3", ".", "4">>),
      \* a time that names no minute
      Row(<<2024, 1, 1>>, <<10, 60>>, <<"5", "5", ".", "2">>, <<"3", ".", "4">>),
      \* the earliest date the format can name
      Row(<<1, 1, 1>>, <<0, 0>>, <<"5", "5", ".", "2">>, <<"3", ".", "4">>) }

\* what the sink can hold when the program starts: nothing, a point of the
\* last hour, a point older than one year
Sinks ==
    { {},
      {[time |-> to_utc(Minutes(2024, 1, 1, 10, 0)),
        fields |-> [humi |-> <<552, 1>>, temp |-> <<34, 1>>]]},
      {[time |-> to_utc(Minutes(2022, 6, 1, 10, 0)),
        fields |-> [humi |-> <<552, 1>>, temp |-> <<34, 1>>]]} }

----------------------------------------------------------------------------
(* Initial state: main is entered, nothing of it has run *)

InitWith(t, k) ==
    /\ pc = "startup"
    /\ timer = t
    /\ kill_timer = k
    /\ last_timestamp = <<>>
    /\ iterations = 0
    /\ zeros = 0
    /\ restarts = 0
    /\ last_restart = 0
    /\ max_zeros = 0
    /\ new_rows = <<>>
    /\ err = ""
    /\ elapsed = 0
    /\ calls = <<>>
    /\ at_start = [last_timestamp |-> <<>>, zeros |-> 0, restarts |-> 0,
                   last_restart |-> 0]
    /\ clock = 0
    /\ dbf = <<>>
    /\ sink \in Sinks
    /\ proc_alive \in BOOLEAN
    /\ connects = 0
    /\ requests = <<>>
    /\ resubmit = FALSE
    /\ match_key = ""
    /\ match_case = <<>>

Init == InitWith(config_timer, config_kill_timer)

----------------------------------------------------------------------------
(* Process supervisor *)

\* start_winmeteo_if_not_running returns: the process is launched if no
\* process has its name
start_returns ==
    IF proc_alive
    THEN proc_alive' = proc_alive /\ requests' = requests   \* line 127 is false
    ELSE proc_alive' = TRUE /\ requests' = Append(requests, "Popen")  \* line 128

\* start_winmeteo_if_not_running raises: the enumeration of processes fails,
\* or the launch of an absent process does
start_raises ==
    /\ proc_alive' = proc_alive
    /\ \/ requests' = requests                                \* line 120
       \/ ~proc_alive /\ requests' = Append(requests, "Popen failed") \* line 128

\* line 171: the call before the connect phase, outside every try
StartupEnsure ==
    /\ pc = "startup"
    /\ start_returns
    /\ pc' = "connect"
    /\ calls' = <<"ensureRunning">>
    /\ UNCHANGED <<timer, kill_timer, last_timestamp, iterations, zeros,
                   restarts, last_restart, max_zeros, new_rows, err, elapsed,
                   at_start, clock, dbf, sink, connects,
                   resubmit, match_key, match_case>>

\* line 171 raises: nothing catches it, main ends
StartupEnsureRaises ==
    /\ pc = "startup"
    /\ start_raises
    /\ pc' = "crashed"
    /\ err' = "OSError: launch failed"
    /\ calls' = <<"ensureRunning">>
    /\ UNCHANGED <<timer, kill_timer, last_timestamp, iterations, zeros,
                   restarts, last_restart, max_zeros, new_rows, elapsed,
                   at_start, clock, dbf, sink, connects,
                   resubmit, match_key, match_case>>

----------------------------------------------------------------------------
(* Connect phase, lines 173-197 *)

\* the threshold rounded up
threshold_up(k, t) == (k + t - 1) \div t

\* kill_timer // timer
threshold(k, t) == k \div t

\* lines 181-187 succeed, then lines 193-197
ConnectOk ==
    /\ pc = "connect"
    /\ \E t \in get_last_timestamp(sink) :
          last_timestamp' = IF t # <<>> THEN t ELSE <<datetime_min>>
    /\ iterations' = 0
    /\ zeros' = 0
    /\ restarts' = 0
    /\ last_restart' = clock
    /\ clock' = clock + 1
    /\ max_zeros' = threshold(kill_timer, timer)
    /\ connects' = 0
    /\ pc' = "cycle"
    /\ UNCHANGED <<timer, kill_timer, new_rows, err, elapsed, calls, at_start,
                   dbf, sink, proc_alive,
                   requests, resubmit, match_key, match_case>>

\* lines 181-184 raise: lines 188-191
ConnectFails ==
    /\ pc = "connect"
    /\ connects < MaxConnectFails
    /\ connects' = connects + 1
    /\ err' = "ConnectionError"
    /\ pc' = "connect_backoff"
    /\ UNCHANGED <<timer, kill_timer, last_timestamp, iterations, zeros,
                   restarts, last_restart, max_zeros, new_rows, elapsed, calls,
                   at_start, clock, dbf, sink, proc_alive,
                   requests, resubmit, match_key, match_case>>

\* time.sleep(error_timer) of line 191 is over
ConnectRetry ==
    /\ pc = "connect_backoff"
    /\ pc' = "connect"
    /\ err' = ""
    /\ UNCHANGED <<timer, kill_timer, last_timestamp, iterations, zeros,
                   restarts, last_restart, max_zeros, new_rows, elapsed, calls,
                   at_start, clock, dbf, sink, proc_alive, connects,
                   requests, resubmit, match_key, match_case>>

----------------------------------------------------------------------------
(* Cycle phase, steps 1-4: lines 202-219 *)

\* the errors of the extraction call (line 206)
ExtractErrors == {"IOError", "ValueError: time data does not match format"}

\* the errors of the write call (line 210)
WriteErrors == {"ApiException", "ValueError: could not convert to float",
                "TypeError: float() argument must be a number"}

\* the loop state that line 204 reports
loop_state == [last_timestamp |-> last_timestamp, zeros |-> zeros,
               restarts |-> restarts, last_restart |-> last_restart]

\* lines 202-204: a cycle begins
begin_cycle ==
    /\ pc = "cycle"
    /\ iterations < MaxIter
    /\ iterations' = iterations + 1
    /\ at_start' = loop_state
    /\ calls' = <<>>
    /\ requests' = <<>>
    /\ resubmit' = (err \in WriteErrors)

\* line 206 raises ValueError: a row of the file has a malformed timestamp
ExtractRaises ==
    /\ begin_cycle
    /\ raised(read_new_rows_from_dbf(dbf, last_timestamp[1]))
    /\ err' = read_new_rows_from_dbf(dbf, last_timestamp[1]).exc
    /\ pc' = "backoff"
    /\ UNCHANGED <<timer, kill_timer, last_timestamp, zeros, restarts,
                   last_restart, max_zeros, new_rows, elapsed, clock, dbf,
                   sink, proc_alive, connects,
                   match_key, match_case>>

\* the file cannot be read and the cycle is counted as an empty poll
ExtractIOError_counts ==
    /\ begin_cycle
    /\ err' = "IOError"
    /\ zeros' = zeros + 1
    /\ pc' = "backoff"
    /\ UNCHANGED <<timer, kill_timer, last_timestamp, restarts,
                   last_restart, max_zeros, new_rows, elapsed, clock, dbf,
                   sink, proc_alive, connects,
                   match_key, match_case>>

\* line 110 raises: the file cannot be opened or loaded
ExtractIOError ==
    /\ begin_cycle
    /\ err' = "IOError"
    /\ pc' = "backoff"
    /\ UNCHANGED <<timer, kill_timer, last_timestamp, zeros, restarts,
                   last_restart, max_zeros, new_rows, elapsed, clock, dbf,
                   sink, proc_alive, connects,
                   match_key, match_case>>

\* lines 206-207, 217-219: no new rows
PollEmpty ==
    /\ begin_cycle
    /\ ~raised(read_new_rows_from_dbf(dbf, last_timestamp[1]))
    /\ new_rows' = value(read_new_rows_from_dbf(dbf, last_timestamp[1]))
    /\ new_rows' = <<>>
    /\ zeros' = zeros + 1
    /\ err' = ""
    /\ pc' = "stall"
    /\ UNCHANGED <<timer, kill_timer, last_timestamp, restarts, last_restart,
                   max_zeros, elapsed, clock, dbf, sink, proc_alive, connects,
                   match_key, match_case>>

\* lines 206-210: new rows, and write_to_influxdb raises while it builds the
\* points (line 95 or 96)
WriteRaises ==
    /\ begin_cycle
    /\ ~raised(read_new_rows_from_dbf(dbf, last_timestamp[1]))
    /\ new_rows' = value(read_new_rows_from_dbf(dbf, last_timestamp[1]))
    /\ new_rows' # <<>>
    /\ raised(make_points(new_rows'))
    /\ err' = make_points(new_rows').exc
    /\ pc' = "backoff"
    /\ UNCHANGED <<timer, kill_timer, last_timestamp, zeros, restarts,
                   last_restart, max_zeros, elapsed, clock, dbf, sink,
                   proc_alive, connects,
                   match_key, match_case>>

\* the write raises and the watermark is advanced all the same
WriteFails_advances ==
    /\ pc = "cycle"
    /\ iterations < MaxIter
    /\ iterations' = iterations + 1
    /\ at_start' = [last_timestamp |-> last_timestamp, zeros |-> zeros,
                    restarts |-> restarts, last_restart |-> last_restart]
    /\ calls' = <<>>
    /\ ~raised(read_new_rows_from_dbf(dbf, last_timestamp[1]))
    /\ new_rows' = value(read_new_rows_from_dbf(dbf, last_timestamp[1]))
    /\ new_rows' # <<>>
    /\ ~raised(make_points(new_rows'))
    /\ last_timestamp' =
          <<CHOOSE t \in {value(row_time(new_rows'[i])) : i \in 1..Len(new_rows')} :
               \A i \in 1..Len(new_rows') : value(row_time(new_rows'[i])) <= t>>
    /\ err' = "ApiException"
    /\ pc' = "backoff"
    /\ UNCHANGED <<timer, kill_timer, zeros, restarts, last_restart, max_zeros,
                   elapsed, clock, dbf, sink, proc_alive, connects,
                   requests, resubmit, match_key, match_case>>

\* lines 206-210: new rows, and the batched write of line 101 raises; the
\* sink has stored none, some or all of the points by then
WriteFails ==
    /\ begin_cycle
    /\ ~raised(read_new_rows_from_dbf(dbf, last_timestamp[1]))
    /\ new_rows' = value(read_new_rows_from_dbf(dbf, last_timestamp[1]))
    /\ new_rows' # <<>>
    /\ ~raised(make_points(new_rows'))
    /\ \E n \in 0..Len(new_rows') :
          sink' = write_api_write(sink, SubSeq(value(make_points(new_rows')), 1, n))
    /\ err' = "ApiException"
    /\ pc' = "backoff"
    /\ UNCHANGED <<timer, kill_timer, last_timestamp, zeros, restarts,
                   last_restart, max_zeros, elapsed, clock, dbf,
                   proc_alive, connects,
                   match_key, match_case>>

\* lines 206-216: new rows, written; the watermark advances
WriteOk ==
    /\ begin_cycle
    /\ ~raised(read_new_rows_from_dbf(dbf, last_timestamp[1]))
    /\ new_rows' = value(read_new_rows_from_dbf(dbf, last_timestamp[1]))
    /\ new_rows' # <<>>
    /\ ~raised(make_points(new_rows'))
    /\ sink' = write_api_write(sink, value(make_points(new_rows')))
    /\ last_timestamp' = <<max_time(new_rows')>>
    /\ zeros' = 0
    /\ err' = ""
    /\ pc' = "stall"
    /\ UNCHANGED <<timer, kill_timer, restarts, last_restart, max_zeros,
                   elapsed, clock, dbf, proc_alive, connects,
                   match_key, match_case>>

----------------------------------------------------------------------------
(* Cycle phase, step 5: lines 221-227 *)

\* the comparison of line 221 as >
stall_reached_late == zeros > max_zeros

\* line 221
stall_reached == zeros >= max_zeros

\* line 221 is false: the cycle is complete (line 233)
NoStall ==
    /\ pc = "stall"
    /\ ~stall_reached
    /\ pc' = "sleep"
    /\ UNCHANGED <<timer, kill_timer, last_timestamp, iterations, zeros,
                   restarts, last_restart, max_zeros, new_rows, err, elapsed,
                   calls, at_start, clock, dbf, sink, proc_alive, connects,
                   requests, resubmit, match_key, match_case>>

\* lines 140, 148-150: no process has the name, kill_winmeteo returns
KillNotRunning ==
    /\ pc = "stall"
    /\ stall_reached
    /\ ~proc_alive
    /\ calls' = Append(calls, "terminate")
    /\ pc' = "ensure"
    /\ UNCHANGED <<timer, kill_timer, last_timestamp, iterations, zeros,
                   restarts, last_restart, max_zeros, new_rows, err, elapsed,
                   at_start, clock, dbf, sink, proc_alive, connects,
                   requests, resubmit, match_key, match_case>>

\* taskkill fails and kill_winmeteo lets the CalledProcessError out
KillRequestFails_raises ==
    /\ pc = "stall"
    /\ stall_reached
    /\ proc_alive
    /\ calls' = Append(calls, "terminate")
    /\ requests' = Append(requests, "taskkill failed")
    /\ err' = "CalledProcessError"
    /\ pc' = "backoff"
    /\ UNCHANGED <<timer, kill_timer, last_timestamp, iterations, zeros,
                   restarts, last_restart, max_zeros, new_rows, elapsed,
                   at_start, clock, dbf, sink, proc_alive, connects,
                   resubmit, match_key, match_case>>

\* lines 143-147: taskkill fails, kill_winmeteo reports it and returns
KillRequestFails ==
    /\ pc = "stall"
    /\ stall_reached
    /\ proc_alive
    /\ calls' = Append(calls, "terminate")
    /\ requests' = Append(requests, "taskkill failed")
    /\ pc' = "ensure"
    /\ UNCHANGED <<timer, kill_timer, last_timestamp, iterations, zeros,
                   restarts, last_restart, max_zeros, new_rows, err, elapsed,
                   at_start, clock, dbf, sink, proc_alive, connects,
                   resubmit, match_key, match_case>>

\* kill_winmeteo issues taskkill (line 143) and starts to poll (line 153)
KillRequested ==
    /\ pc = "stall"
    /\ stall_reached
    /\ proc_alive
    /\ calls' = Append(calls, "terminate")
    /\ requests' = Append(requests, "taskkill")
    /\ elapsed' = 0
    /\ pc' = "kill_poll"
    /\ UNCHANGED <<timer, kill_timer, last_timestamp, iterations, zeros,
                   restarts, last_restart, max_zeros, new_rows, err, at_start,
                   clock, dbf, sink, proc_alive, connects,
                   resubmit, match_key, match_case>>

\* the enumeration of processes raises at line 140
KillRaises ==
    /\ pc = "stall"
    /\ stall_reached
    /\ calls' = Append(calls, "terminate")
    /\ err' = "psutil.Error"
    /\ pc' = "backoff"
    /\ UNCHANGED <<timer, kill_timer, last_timestamp, iterations, zeros,
                   restarts, last_restart, max_zeros, new_rows, elapsed,
                   at_start, clock, dbf, sink, proc_alive, connects,
                   requests, resubmit, match_key, match_case>>

\* the enumeration of processes raises at line 155
PollRaises ==
    /\ pc = "kill_poll"
    /\ err' = "psutil.Error"
    /\ elapsed' = 0
    /\ pc' = "backoff"
    /\ UNCHANGED <<timer, kill_timer, last_timestamp, iterations, zeros,
                   restarts, last_restart, max_zeros, new_rows, calls,
                   at_start, clock, dbf, sink, proc_alive, connects,
                   requests, resubmit, match_key, match_case>>

\* kill_winmeteo returns from the poll loop with the process alive
PollGone_alive ==
    /\ pc = "kill_poll"
    /\ proc_alive
    /\ elapsed' = 0
    /\ pc' = "ensure"
    /\ UNCHANGED <<timer, kill_timer, last_timestamp, iterations, zeros,
                   restarts, last_restart, max_zeros, new_rows, err, calls,
                   at_start, clock, dbf, sink, proc_alive, connects,
                   requests, resubmit, match_key, match_case>>

\* lines 155-158: the process is gone, kill_winmeteo returns
PollGone ==
    /\ pc = "kill_poll"
    /\ ~proc_alive
    /\ elapsed' = 0
    /\ pc' = "ensure"
    /\ UNCHANGED <<timer, kill_timer, last_timestamp, iterations, zeros,
                   restarts, last_restart, max_zeros, new_rows, err, calls,
                   at_start, clock, dbf, sink, proc_alive, connects,
                   requests, resubmit, match_key, match_case>>

\* line 160
timed_out == elapsed > wait_for_kill

\* the wait is over and kill_winmeteo returns instead of raising
PollTimeout_returns ==
    /\ pc = "kill_poll"
    /\ proc_alive
    /\ elapsed > wait_for_kill
    /\ elapsed' = 0
    /\ pc' = "ensure"
    /\ UNCHANGED <<timer, kill_timer, last_timestamp, iterations, zeros,
                   restarts, last_restart, max_zeros, new_rows, err, calls,
                   at_start, clock, dbf, sink, proc_alive, connects,
                   requests, resubmit, match_key, match_case>>

\* lines 160-161: the process is alive and the wait is over
PollTimeout ==
    /\ pc = "kill_poll"
    /\ proc_alive
    /\ timed_out
    /\ err' = "OSError: failed to terminate process"
    /\ elapsed' = 0
    /\ pc' = "backoff"
    /\ UNCHANGED <<timer, kill_timer, last_timestamp, iterations, zeros,
                   restarts, last_restart, max_zeros, new_rows, calls,
                   at_start, clock, dbf, sink, proc_alive, connects,
                   requests, resubmit, match_key, match_case>>

\* line 163: the process is alive, wait one second and poll again
PollSleep ==
    /\ pc = "kill_poll"
    /\ proc_alive
    /\ ~timed_out
    /\ elapsed' = elapsed + 1
    /\ UNCHANGED <<pc, timer, kill_timer, last_timestamp, iterations, zeros,
                   restarts, last_restart, max_zeros, new_rows, err, calls,
                   at_start, clock, dbf, sink, proc_alive, connects,
                   requests, resubmit, match_key, match_case>>

\* line 224 returns, then lines 225-227 and line 233
Restart ==
    /\ pc = "ensure"
    /\ start_returns
    /\ calls' = Append(calls, "ensureRunning")
    /\ restarts' = restarts + 1
    /\ last_restart' = clock
    /\ clock' = clock + 1
    /\ zeros' = 0
    /\ pc' = "sleep"
    /\ UNCHANGED <<timer, kill_timer, last_timestamp, iterations, max_zeros,
                   new_rows, err, elapsed, at_start, dbf, sink, connects,
                   resubmit, match_key, match_case>>

\* line 224 raises after the restart has been counted
EnsureRaises_counted ==
    /\ pc = "ensure"
    /\ proc_alive' = proc_alive
    /\ calls' = Append(calls, "ensureRunning")
    /\ restarts' = restarts + 1
    /\ err' = "OSError: launch failed"
    /\ pc' = "backoff"
    /\ UNCHANGED <<timer, kill_timer, last_timestamp, iterations, zeros,
                   last_restart, max_zeros, new_rows, elapsed, at_start, clock,
                   dbf, sink, connects,
                   requests, resubmit, match_key, match_case>>

\* line 224 raises
EnsureRaises ==
    /\ pc = "ensure"
    /\ start_raises
    /\ calls' = Append(calls, "ensureRunning")
    /\ err' = "OSError: launch failed"
    /\ pc' = "backoff"
    /\ UNCHANGED <<timer, kill_timer, last_timestamp, iterations, zeros,
                   restarts, last_restart, max_zeros, new_rows, elapsed,
                   at_start, clock, dbf, sink, connects,
                   resubmit, match_key, match_case>>

----------------------------------------------------------------------------
(* The waits at the end of a cycle *)

\* line 234: time.sleep(timer) is over
Wake ==
    /\ pc = "sleep"
    /\ pc' = "cycle"
    /\ UNCHANGED <<timer, kill_timer, last_timestamp, iterations, zeros,
                   restarts, last_restart, max_zeros, new_rows, err, elapsed,
                   calls, at_start, clock, dbf, sink, proc_alive, connects,
                   requests, resubmit, match_key, match_case>>

\* line 231: time.sleep(error_timer) is over
Retry ==
    /\ pc = "backoff"
    /\ pc' = "cycle"
    /\ UNCHANGED <<timer, kill_timer, last_timestamp, iterations, zeros,
                   restarts, last_restart, max_zeros, new_rows, err, elapsed,
                   calls, at_start, clock, dbf, sink, proc_alive, connects,
                   requests, resubmit, match_key, match_case>>

\* the seconds of the time.sleep call that main is in (lines 163, 191, 231,
\* 234), 0 when it is in none
sleep_seconds ==
    IF pc \in {"backoff", "connect_backoff"} THEN error_timer
    ELSE IF pc = "sleep" THEN timer
    ELSE IF pc = "kill_poll" THEN 1
    ELSE 0

----------------------------------------------------------------------------
(* The environment *)

\* the data logger appends a row to the source file; main reads the file at
\* line 206 only, so that an append at any other position of main is the
\* append of the same row just before the next cycle begins
SourceAppend ==
    /\ pc = "cycle"
    /\ Len(dbf) < MaxRows
    /\ \E r \in Rows : dbf' = Append(dbf, r)
    /\ UNCHANGED <<pc, timer, kill_timer, last_timestamp, iterations, zeros,
                   restarts, last_restart, max_zeros, new_rows, err, elapsed,
                   calls, at_start, clock, sink, proc_alive, connects,
                   requests, resubmit, match_key, match_case>>

\* the monitored process ends, killed or by itself; main looks for the
\* process at lines 120, 140 and 155 only, so that its end at any other
\* position of main is its end just before the next of these lines
ProcessEnds ==
    /\ pc \in {"startup", "stall", "kill_poll", "ensure"}
    /\ proc_alive
    /\ proc_alive' = FALSE
    /\ UNCHANGED <<pc, timer, kill_timer, last_timestamp, iterations, zeros,
                   restarts, last_restart, max_zeros, new_rows, err, elapsed,
                   calls, at_start, clock, dbf, sink, connects,
                   requests, resubmit, match_key, match_case>>

Next ==
    \/ StartupEnsure \/ StartupEnsureRaises
    \/ ConnectOk \/ ConnectFails \/ ConnectRetry
    \/ ExtractRaises \/ ExtractIOError \/ PollEmpty
    \/ WriteRaises \/ WriteFails \/ WriteOk
    \/ NoStall \/ KillNotRunning \/ KillRequestFails \/ KillRequested \/ KillRaises
    \/ PollRaises \/ PollGone \/ PollTimeout \/ PollSleep
    \/ Restart \/ EnsureRaises
    \/ Wake \/ Retry
    \/ SourceAppend \/ ProcessEnds

Spec == Init /\ [][Next]_vars

----------------------------------------------------------------------------
(* Properties *)

\* positions of main inside a cycle, after step 1
InCycle == pc \in {"stall", "kill_poll", "ensure", "sleep", "backoff"}

\* the timestamp of the i-th row of a batch
TimeOf(rows, i) == value(row_time(rows[i]))

\* C1: once the connect phase has set the watermark, no step of the program
\* or of its environment decreases it (or unsets it).
C1_WatermarkNeverDecreases ==
    [][last_timestamp # <<>> =>
          /\ last_timestamp' # <<>>
          /\ last_timestamp'[1] >= last_timestamp[1]]_vars

\* a cycle that wrote two rows, the later one first, and advanced the watermark
C1_Witness ==
    /\ pc = "stall"
    /\ Len(new_rows) = 2
    /\ TimeOf(new_rows, 1) > TimeOf(new_rows, 2)
    /\ at_start.last_timestamp # <<>>
    /\ last_timestamp[1] > at_start.last_timestamp[1]

\* C2: a cycle whose write raised ends with the watermark it began with, and
\* a cycle that ends with another watermark has every row of its batch in the
\* sink.
C2_NoAdvanceOnWriteFailure ==
    /\ (pc = "backoff" /\ err \in WriteErrors) =>
          last_timestamp = at_start.last_timestamp
    /\ (InCycle /\ last_timestamp # at_start.last_timestamp) =>
          /\ new_rows # <<>>
          /\ err \notin WriteErrors
          /\ \A i \in 1..Len(new_rows) :
                \E p \in sink : p.time = to_utc(TimeOf(new_rows, i))

\* the batched write of a non-empty batch raised
C2_Witness ==
    /\ pc = "backoff"
    /\ err = "ApiException"
    /\ new_rows # <<>>
    /\ last_timestamp = at_start.last_timestamp

\* C3: after a successful write of a non-empty batch the watermark is a
\* timestamp of the batch and no timestamp of the batch is later.
C3_WatermarkIsMaximum ==
    (pc \in {"stall", "sleep"} /\ new_rows # <<>>) =>
       /\ \E i \in 1..Len(new_rows) : last_timestamp[1] = TimeOf(new_rows, i)
       /\ \A i \in 1..Len(new_rows) : TimeOf(new_rows, i) <= last_timestamp[1]

\* a written batch whose last row is not its latest
C3_Witness ==
    /\ pc = "stall"
    /\ Len(new_rows) = 2
    /\ TimeOf(new_rows, 2) < TimeOf(new_rows, 1)
    /\ last_timestamp[1] = TimeOf(new_rows, 1)

\* the indices of the rows of a table later than w
Later(table, w) == {i \in 1..Len(table) : value(row_time(table[i])) > w}

\* rows is the table restricted to the indices in idx, in the table's order
IsRestriction(rows, table, idx) ==
    /\ Len(rows) = Cardinality(idx)
    /\ \A k \in 1..Len(rows) :
          rows[k] = table[CHOOSE i \in idx : Cardinality({j \in idx : j <= i}) = k]

\* a step of main in which the extraction call returned
ExtractionReturned ==
    /\ pc = "cycle"
    /\ pc' # "cycle"
    /\ err' \notin ExtractErrors

\* C4: an extraction that returns yields exactly the rows of the file whose
\* timestamp is strictly later than the watermark, in file order, and leaves
\* the file and the watermark it was given as they were, so that a second
\* call has the same inputs.
C4_ExtractionIsStrictFilter ==
    [][ExtractionReturned =>
          /\ IsRestriction(new_rows', dbf, Later(dbf, last_timestamp[1]))
          /\ dbf' = dbf
          /\ at_start'.last_timestamp = last_timestamp]_vars

\* an extraction that left out a row dated exactly at the watermark
C4_Witness ==
    /\ pc = "stall"
    /\ Len(dbf) = 2
    /\ Len(new_rows) = 1
    /\ new_rows[1] = dbf[2]
    /\ ~raised(row_time(dbf[1]))
    /\ <<value(row_time(dbf[1]))>> = at_start.last_timestamp

\* C5: with timer = 30 and kill_timer = 180 the threshold is 6; terminate is
\* called only in a cycle whose empty poll is at least the sixth in a row,
\* and a cycle that completes on the sixth empty poll has called terminate
\* and then ensureRunning, once each, has reset the empty counter and has
\* counted one restart; a cycle that completes earlier has called neither.
C5_RestartAtSixthEmptyPoll ==
    /\ (timer = 30 /\ kill_timer = 180 /\ last_timestamp # <<>>) => max_zeros = 6
    /\ (InCycle /\ calls # <<>>) =>
          /\ calls[1] = "terminate"
          /\ new_rows = <<>>
          /\ at_start.zeros + 1 >= 6
    /\ (pc = "sleep" /\ new_rows = <<>> /\ at_start.zeros + 1 >= 6) =>
          /\ calls = <<"terminate", "ensureRunning">>
          /\ zeros = 0
          /\ restarts = at_start.restarts + 1
    /\ (pc = "sleep" /\ (new_rows # <<>> \/ at_start.zeros + 1 < 6)) =>
          /\ calls = <<>>
          /\ restarts = at_start.restarts

\* the sixth cycle, after six empty polls and no failure
C5_Witness ==
    /\ pc = "sleep"
    /\ iterations = 6
    /\ at_start.zeros = 5
    /\ at_start.restarts = 0
    /\ calls = <<"terminate", "ensureRunning">>
    /\ zeros = 0
    /\ restarts = 1

\* C6: no poll sleeps again once it has seen the process alive after more
\* than wait_for_kill seconds, and the timeout error is raised then only;
\* kill_winmeteo is left with the process alive by a raise only (the timeout
\* error, or the error of a failed enumeration), which sends the cycle to
\* the error backoff with ensureRunning not called and the restart counter,
\* the last restart and the empty counter as they were before the call.
C6_TimeoutAbortsRestart ==
    /\ [](pc = "kill_poll" => elapsed <= wait_for_kill + 1)
    /\ [][(pc = "kill_poll" /\ pc' # "kill_poll" /\ proc_alive) =>
             /\ pc' = "backoff"
             /\ sleep_seconds' = error_timer
             /\ err' \in {"OSError: failed to terminate process", "psutil.Error"}
             /\ err' = "OSError: failed to terminate process" => elapsed > wait_for_kill
             /\ calls' = <<"terminate">>
             /\ restarts' = at_start.restarts
             /\ last_restart' = at_start.last_restart
             /\ zeros' = zeros
             /\ zeros' = at_start.zeros + 1]_vars

\* a cycle that ended in the timeout of the kill wait
C6_Witness ==
    /\ pc = "backoff"
    /\ err = "OSError: failed to terminate process"
    /\ proc_alive
    /\ calls = <<"terminate">>
    /\ zeros = 6

\* a mapped column of a row of the batch has a value that is no number
HasUncoercible(rows) ==
    \E i \in 1..Len(rows) : \E k \in mapped_keys(rows[i]) : raised(float(rows[i][k]))

\* C7: when a mapped column of a record of the batch has a value that is no
\* number and the sink accepts the write, the cycle does not fail and every
\* record of the batch has its point in the sink, with its other fields.
C7_CoercionFailureDropsOneField ==
    (InCycle /\ new_rows # <<>> /\ HasUncoercible(new_rows)
        /\ err \notin ExtractErrors /\ err # "ApiException") =>
       /\ pc # "backoff"
       /\ \A i \in 1..Len(new_rows) :
             \E p \in sink :
                /\ p.time = to_utc(TimeOf(new_rows, i))
                /\ \A k \in mapped_keys(new_rows[i]) :
                      ~raised(float(new_rows[i][k])) =>
                         column_names[k] \in DOMAIN p.fields

\* C8: the scheduler never terminates.
C8_NeverTerminates == pc # "crashed"

\* the points of the sink that the query of the connect phase ranges over
InWindow == {p \in sink : p.time >= sink_now - 12 * 31 * 24 * 60 /\ p.time < sink_now}

\* the latest time among a non-empty set of points
Latest(points) ==
    CHOOSE t \in {p.time : p \in points} : \A p \in points : p.time <= t

ConnectPhase == pc \in {"startup", "connect", "connect_backoff"}

\* the connect phase does nothing but connect, and retries after one wait
ConnectRetries ==
    /\ [](ConnectPhase =>
             last_timestamp = <<>> /\ iterations = 0 /\ new_rows = <<>> /\ sink \in Sinks)
    /\ [](pc \in {"cycle", "stall", "kill_poll", "ensure", "sleep", "backoff"} =>
             last_timestamp # <<>>)
    /\ [](pc = "connect_backoff" => ENABLED ConnectRetry)
    /\ [][(pc = "connect" /\ pc' # "connect") => pc' \in {"cycle", "connect_backoff"}]_vars
    /\ [][(pc = "connect_backoff" /\ pc' # "connect_backoff") => pc' = "connect"]_vars

C10_AsStated ==
    (pc \in {"backoff", "cycle"} /\ err # "") => loop_state = at_start

\* C10, amended: a cycle that fails in the extraction or the write leaves the
\* watermark, the empty counter, the restart counter and the last restart as
\* they were when it began; a cycle that fails in terminate or in the launch
\* leaves the watermark, the restart counter and the last restart so, and
\* the empty counter one higher, the empty poll of the cycle being counted.
C10_FailedCycleKeepsState ==
    (pc \in {"backoff", "cycle"} /\ err # "") =>
       /\ last_timestamp = at_start.last_timestamp
       /\ restarts = at_start.restarts
       /\ last_restart = at_start.last_restart
       /\ calls = <<>> => (zeros = at_start.zeros /\ err \in ExtractErrors \cup WriteErrors)
       /\ calls # <<>> => (zeros = at_start.zeros + 1 /\ err \notin ExtractErrors \cup WriteErrors)

\* the retry after a launch that failed: the empty poll stays counted
C10_Witness ==
    /\ pc = "cycle"
    /\ err = "OSError: launch failed"
    /\ calls = <<"terminate", "ensureRunning">>
    /\ zeros = at_start.zeros + 1
    /\ restarts = at_start.restarts

\* the last batch extracted is not in the sink as far as the watermark tells:
\* its rows are later than the watermark
Pending ==
    /\ new_rows # <<>>
    /\ last_timestamp # <<>>
    /\ \E i \in 1..Len(new_rows) : TimeOf(new_rows, i) > last_timestamp[1]

\* C11: the rows of a batch whose write failed are in the batch of every
\* later extraction that returns, as long as no write has succeeded (the file
\* keeps its rows); and once the write of a batch has succeeded the sink
\* holds, for each row of the batch, exactly one point with the timestamp of
\* the row, and that point is the point of the row, whether or not an
\* earlier, failed write had stored it already.
C11_RetryIsSafe ==
    /\ [][(ExtractionReturned /\ new_rows # <<>> /\ (err \in WriteErrors \/ Pending)) =>
            \A i \in 1..Len(new_rows) :
                \E j \in 1..Len(new_rows') : new_rows'[j] = new_rows[i]]_vars
    /\ [](pc = "backoff" /\ err \in WriteErrors => Pending)
    /\ []((InCycle /\ last_timestamp # at_start.last_timestamp) =>
            \A i \in 1..Len(new_rows) :
                /\ value(make_point(new_rows[i])) \in sink
                /\ Cardinality({p \in sink :
                        p.time = to_utc(TimeOf(new_rows, i))}) = 1)

\* a write has succeeded in the cycle after a failed write, for a batch that
\* holds more than one row
C11_Witness ==
    /\ pc = "stall"
    /\ resubmit
    /\ Len(new_rows) = 2
    /\ last_timestamp # at_start.last_timestamp
    /\ \A i \in 1..Len(new_rows) : value(make_point(new_rows[i])) \in sink

\* a step in which main calls kill_winmeteo (line 223)
TerminateCalled == calls' = Append(calls, "terminate")

C13_PollLoopEnds ==
    /\ [][(pc = "kill_poll" /\ pc' # "kill_poll") =>
            \/ pc' = "ensure" /\ ~proc_alive /\ err' = err
            \/ /\ pc' = "backoff"
               /\ err' = "OSError: failed to terminate process"
               /\ proc_alive
               /\ elapsed > wait_for_kill
            \/ pc' = "backoff" /\ err' = "psutil.Error"]_vars
    /\ [][(pc = "kill_poll" /\ elapsed' # elapsed /\ pc' = "kill_poll") =>
            /\ elapsed' = elapsed + 1
            /\ proc_alive
            /\ elapsed <= wait_for_kill]_vars
    /\ [](pc = "kill_poll" =>
            /\ elapsed <= wait_for_kill + 1
            /\ ENABLED (PollGone \/ PollTimeout \/ PollSleep))

\* kill_winmeteo has returned from its poll loop: the kill request was
\* issued and a poll has seen the process absent
C13_Witness ==
    /\ pc = "ensure"
    /\ calls = <<"terminate">>
    /\ requests = <<"taskkill">>
    /\ ~proc_alive
    /\ err = ""

----------------------------------------------------------------------------
(* The match statement of write_to_influxdb (lines 50-95), one key at a time *)

\* the keys given to the match statement: every name it has a case for, and
\* strings it has none for, among them names in lower case, the field names
\* and names with one character more or less
KeySamples ==
    system_columns \cup unused_columns \cup DOMAIN column_names
    \cup {column_names[k] : k \in DOMAIN column_names}
    \cup {"", "ROSBOD", "vlvzd", "Dat", "DAT ", "TEP2M_", "TEP2", "PWD",
          "PWD_V", "NABAT_X", "NullFlags", "None"}

\* write_to_influxdb is entered with a row whose first key is any sample
InitMapper ==
    /\ pc = "match"
    /\ match_key \in KeySamples
    /\ match_case = <<>>
    /\ timer = config_timer
    /\ kill_timer = config_kill_timer
    /\ last_timestamp = <<>>
    /\ iterations = 0
    /\ zeros = 0
    /\ restarts = 0
    /\ last_restart = 0
    /\ max_zeros = 0
    /\ new_rows = <<>>
    /\ err = ""
    /\ elapsed = 0
    /\ calls = <<>>
    /\ at_start = [last_timestamp |-> <<>>, zeros |-> 0, restarts |-> 0,
                   last_restart |-> 0]
    /\ clock = 0
    /\ dbf = <<>>
    /\ sink = {}
    /\ proc_alive = TRUE
    /\ connects = 0
    /\ requests = <<>>
    /\ resubmit = FALSE

\* lines 50-94: the match statement takes the case of the key
MatchKey ==
    /\ pc = "match"
    /\ match_case = <<>>
    /\ match_case' = field_mapper(match_key)
    /\ UNCHANGED <<pc, timer, kill_timer, last_timestamp, iterations, zeros,
                   restarts, last_restart, max_zeros, new_rows, err, elapsed,
                   calls, at_start, clock, dbf, sink, proc_alive, connects,
                   requests, resubmit, match_key>>

\* line 46: the loop over the items of the row gives the next key
NextKey ==
    /\ pc = "match"
    /\ match_case # <<>>
    /\ match_key' \in KeySamples
    /\ match_case' = <<>>
    /\ UNCHANGED <<pc, timer, kill_timer, last_timestamp, iterations, zeros,
                   restarts, last_restart, max_zeros, new_rows, err, elapsed,
                   calls, at_start, clock, dbf, sink, proc_alive, connects,
                   requests, resubmit>>

NextMapper == MatchKey \/ NextKey

SpecMapper == InitMapper /\ [][NextMapper]_vars

\* the names that the match statement passes over (lines 52-56)
IgnoredNames ==
    {"DAT", "CAS", "EX", "RESETCNT", "RESETTYP", "_NullFlags", "PWD_ERR",
     "PWD_V01", "PWD_V10", "PWD_P01", "PWD_P15", "PWD_WI", "PWD_WS", "PWD_SS",
     "PWD_T", "PWD_BL"}

\* the sensor columns, each with its field name
FieldNames ==
    {<<"VLVZD", "humi">>, <<"TEP2M", "temp">>, <<"TEP2M_I", "temp_min">>,
     <<"TEP2M_X", "temp_max">>, <<"TLAK", "press">>, <<"TLAK_M", "press_sea">>,
     <<"SRAZKY", "rain">>, <<"RYCHV", "wind_speed">>, <<"SMERV", "wind_dir">>,
     <<"RYCHV_P", "wind_speed_avg">>, <<"SMERV_P", "wind_dir_avg">>,
     <<"RYCHV_X", "wind_speed_max">>, <<"SMERV_X", "wind_dir_max">>,
     <<"CASV_X", "wind_time_max">>, <<"NABAT_E", "volt_exp">>,
     <<"NABAT", "volt">>, <<"NABAT_I", "volt_min">>}

\* C14: the match statement gives every key exactly one outcome: Ignored to
\* the sixteen reserved and unused names, Mapped with its field name to each
\* of the seventeen sensor columns, Unknown to every other string; and no
\* other sensor column is given the field name of the key.
C14_MapperIsTotal ==
    match_case # <<>> =>
        /\ match_key \in IgnoredNames => match_case = <<"Ignored">>
        /\ \A f \in FieldNames :
              match_key = f[1] => match_case = <<"Mapped", f[2]>>
        /\ match_key \notin IgnoredNames \cup {f[1] : f \in FieldNames} =>
              match_case = <<"Unknown">>
        /\ \A f \in FieldNames :
              (match_key # f[1] /\ match_case[1] = "Mapped") =>
                  field_mapper(f[1]) # match_case
        /\ Cardinality(FieldNames) = 17
        /\ Cardinality({f[2] : f \in FieldNames}) = 17

\* the last case of the match statement that names a column has been taken
C14_Witness ==
    /\ pc = "match"
    /\ match_key = "NABAT_I"
    /\ match_case = <<"Mapped", "volt_min">>

\* C15: a write that succeeds has built one point for each row of the batch,
\* in the order of the rows, with the timestamp of the row and with exactly
\* the fields of the row's columns that the match statement maps (of the
\* sample rows: humi and temp, whatever the ignored columns DAT, CAS and EX
\* and the unknown column ROSBOD hold), each with the number its column
\* holds; and the one write call has put all of them into the sink, which
\* holds nothing else that it did not hold before.
C15_OnePointPerRecord ==
    /\ []((InCycle /\ last_timestamp # at_start.last_timestamp) =>
            /\ ~raised(make_points(new_rows))
            /\ Len(value(make_points(new_rows))) = Len(new_rows)
            /\ \A i \in 1..Len(new_rows) :
                  LET row == new_rows[i]
                      point == value(make_points(new_rows))[i]
                      mapped == {k \in DOMAIN row : field_mapper(k)[1] = "Mapped"}
                  IN  /\ point.time = to_utc(TimeOf(new_rows, i))
                      /\ mapped = {"VLVZD", "TEP2M"}
                      /\ DOMAIN point.fields = {"humi", "temp"}
                      /\ point.fields["humi"] = value(float(row["VLVZD"]))
                      /\ point.fields["temp"] = value(float(row["TEP2M"]))
                      /\ point \in sink)
    /\ [][(pc = "cycle" /\ pc' = "stall" /\ new_rows' # <<>>) =>
            \A p \in sink' :
                \/ p \in sink
                \/ \E i \in 1..Len(new_rows') :
                      p = value(make_points(new_rows'))[i]]_vars

\* a batch of two rows has been written, each with an ignored and an unknown
\* column
C15_Witness ==
    /\ pc = "stall"
    /\ last_timestamp # at_start.last_timestamp
    /\ Len(new_rows) = 2
    /\ new_rows[1] # new_rows[2]
    /\ \A i \in 1..2 :
          /\ field_mapper("ROSBOD") = <<"Unknown">>
          /\ field_mapper("EX") = <<"Ignored">>
          /\ {"ROSBOD", "EX"} \subseteq DOMAIN new_rows[i]
          /\ value(make_point(new_rows[i])) \in sink

\* the steps of a cycle that the empty counter depends on
EmptyPollStep == pc = "cycle" /\ pc' = "stall" /\ new_rows' = <<>>
WrittenStep == pc = "cycle" /\ pc' = "stall" /\ new_rows' # <<>>
RestartedStep == pc = "ensure" /\ pc' = "sleep"
FailedStep == pc = "cycle" /\ pc' = "backoff"

\* C16: the empty counter grows by one in the step of a cycle whose
\* extraction returns no rows, becomes 0 in the step that writes a non-empty
\* batch and in the step that completes a restart, and is left as it is by
\* every other step of the cycle phase, the step of a cycle that fails in
\* the extraction or in the write among them; it is 0 when the cycle phase
\* begins. So it counts the empty polls since the latest of these zeros.
C16_EmptyCounter ==
    /\ [][IF EmptyPollStep THEN zeros' = zeros + 1
          ELSE IF WrittenStep \/ RestartedStep \/ pc = "connect" THEN zeros' = 0
          ELSE zeros' = zeros]_vars
    /\ [][FailedStep => (err' \in ExtractErrors \cup WriteErrors /\ zeros' = zeros)]_vars
    /\ [][RestartedStep => restarts' = restarts + 1]_vars
    /\ []((InCycle /\ zeros > at_start.zeros) =>
            (new_rows = <<>> /\ zeros = at_start.zeros + 1))

\* three empty polls, counted after a write had set the counter to zero
C16_Witness ==
    /\ pc = "sleep"
    /\ zeros = 3
    /\ new_rows = <<>>
    /\ iterations = 4
    /\ last_timestamp = <<Minutes(2024, 1, 1, 10, 15)>>
    /\ \E p \in sink : p.time = to_utc(Minutes(2024, 1, 1, 10, 15))

----------------------------------------------------------------------------
(* main under other values of meteoconfig.timer and meteoconfig.kill_timer *)

\* <<timer, kill_timer>>: kill_timer no multiple of timer (thresholds 6 and
\* 1) and kill_timer below timer
Configs == {<<30, 200>>, <<60, 100>>, <<60, 30>>}

\* main is started again after an earlier run: the file holds a row and the
\* sink the point of that row
InitCfg ==
    /\ pc = "startup"
    /\ \E c \in Configs : timer = c[1] /\ kill_timer = c[2]
    /\ dbf = <<Row(<<2024, 1, 1>>, <<10, 0>>, <<"5", "5", ".", "2">>,
                   <<"3", ".", "4">>)>>
    /\ sink = {[time |-> to_utc(Minutes(2024, 1, 1, 10, 0)),
                fields |-> [humi |-> <<552, 1>>, temp |-> <<34, 1>>]]}
    /\ proc_alive \in BOOLEAN
    /\ last_timestamp = <<>>
    /\ iterations = 0
    /\ zeros = 0
    /\ restarts = 0
    /\ last_restart = 0
    /\ max_zeros = 0
    /\ new_rows = <<>>
    /\ err = ""
    /\ elapsed = 0
    /\ calls = <<>>
    /\ at_start = [last_timestamp |-> <<>>, zeros |-> 0, restarts |-> 0,
                   last_restart |-> 0]
    /\ clock = 0
    /\ connects = 0
    /\ requests = <<>>
    /\ resubmit = FALSE
    /\ match_key = ""
    /\ match_case = <<>>

SpecCfg == InitCfg /\ [][Next]_vars

\* the integer f with f * timer <= kill_timer < (f + 1) * timer
Floor == CHOOSE f \in 0..kill_timer :
            f * timer <= kill_timer /\ kill_timer < (f + 1) * timer

\* the current cycle has counted an empty poll and gone through the check of
\* line 221
PolledEmpty ==
    /\ new_rows = <<>>
    /\ \/ pc \in {"kill_poll", "ensure", "sleep"}
       \/ pc = "backoff" /\ err \notin ExtractErrors \cup WriteErrors

\* C17: with kill_timer >= timer the threshold set by the connect phase is
\* floor(kill_timer / timer), at least 1; terminate is called only in a cycle
\* whose empty poll is at least the floor-th in a row, and it is called in
\* every cycle whose empty poll is the floor-th in a row: with every poll
\* empty and no failure, in cycle number floor and in no earlier cycle
\* (timer = 30, kill_timer = 200: cycle 6).
C17_ThresholdIsFloor ==
    kill_timer >= timer =>
        /\ last_timestamp # <<>> => (max_zeros = Floor /\ max_zeros >= 1)
        /\ (InCycle /\ calls # <<>>) =>
              /\ calls[1] = "terminate"
              /\ new_rows = <<>>
              /\ at_start.zeros + 1 >= Floor
              /\ at_start.zeros = iterations - 1 => iterations >= Floor
        /\ (PolledEmpty /\ at_start.zeros + 1 >= Floor) =>
              (calls # <<>> /\ calls[1] = "terminate")
        /\ (timer = 30 /\ kill_timer = 200 /\ PolledEmpty
              /\ at_start.zeros = iterations - 1 /\ at_start.restarts = 0) =>
              (calls # <<>> <=> iterations >= 6)

\* timer = 30 and kill_timer = 200: six empty polls and no failure, the sixth
\* cycle has called terminate and restarted
C17_Witness ==
    /\ timer = 30
    /\ kill_timer = 200
    /\ pc = "sleep"
    /\ iterations = 6
    /\ at_start.zeros = 5
    /\ at_start.restarts = 0
    /\ calls = <<"terminate", "ensureRunning">>
    /\ restarts = 1

\* C20: whatever positive timer and kill_timer are, a cycle that has written
\* a non-empty batch (its watermark is not the one it began with) has not
\* called terminate.
C20_NoTerminateAfterWrite ==
    (InCycle /\ last_timestamp # at_start.last_timestamp) =>
        /\ new_rows # <<>>
        /\ \A i \in 1..Len(calls) : calls[i] # "terminate"

\* C18: a step of the cycle phase that counts a restart, or sets the time of
\* the last restart, is a step in which ensureRunning finds no process of
\* the name, the terminate call over, and launches one.
C18_RestartsAreReal ==
    [][(pc # "connect" /\ (restarts' # restarts \/ last_restart' # last_restart)) =>
          /\ calls = <<"terminate">>
          /\ ~proc_alive
          /\ proc_alive'
          /\ requests' = Append(requests, "Popen")]_vars

\* the file holds a row whose timestamp does not parse: line 113 raises in
\* every extraction, the file keeping its rows
Unreadable == \E i \in 1..Len(dbf) : raised(row_time(dbf[i]))

\* main is between two cycles, the process is not alive and the file is one
\* that every extraction fails on
Abandoned ==
    /\ pc \in {"cycle", "backoff"}
    /\ ~proc_alive
    /\ Unreadable

\* once main is between two cycles with the process not alive and such a
\* file, it stays so whatever step is taken: every cycle ends at line 206,
\* the empty counter stands still and ensureRunning is not called again
AbandonedForEver ==
    [][Abandoned => (Abandoned' /\ zeros' = zeros /\ restarts' = restarts
                        /\ calls' \in {calls, <<>>})]_vars

\* C19: the process not alive, the scheduler is never where no later step
\* can launch it: whatever the failures of the source file, a call of
\* ensureRunning is still ahead.
C19_KeepsProcessAlive == ~Abandoned

=============================================================================
